---- MODULE Spec2Model ----
(***************************************************************************)
(* Body-text extraction of the OCR fallback path of the pdf-to-audio       *)
(* converter: filter.py (parse_ocr_data, cluster_body_sizes,               *)
(* filter_body_words) and the three statements of main.py that chain them; *)
(* the quota ledger of quota.py (check_and_update_quota, get_quota_status) *)
(* under concurrent calls; and the /process handler of main.py with its    *)
(* files under TMP_DIR, under concurrent requests.                         *)
(*                                                                         *)
(* Python values are modelled as follows.  A str is a sequence of          *)
(* one-character strings (so "".join and " ".join are concatenations that  *)
(* can get the order wrong), a list is a sequence, an attribute is a       *)
(* record field.  A call that raises yields a record whose exc field names *)
(* the exception; list indices are Python's (0-based) and are translated   *)
(* by Index.                                                               *)
(***************************************************************************)
EXTENDS Integers, Sequences, FiniteSets, TLC

VARIABLES
    ocr,        \* ocr_data: the full_text_annotation handed to parse_ocr_data
    words,      \* words  (main.py:339)
    sizes,      \* sizes  (main.py:339)
    n_classes,  \* the n_classes argument of cluster_body_sizes (default 3)
    k_used,     \* n_classes as passed to jenkspy.jenks_breaks (filter.py:27); 0 = not called
    breaks,     \* breaks (main.py:340)
    body,       \* the list returned by filter_body_words
    raw_text,   \* raw_text (main.py:341)
    exc,        \* the exception that left the code, "none" if none did
    pc,         \* position in main.py:339-341
    ledger,     \* the blob quota/usage.json (quota.py:10)
    ledger0,    \* history: the ledger before the first modelled call
    now,        \* the UTC clock read by datetime.now (quota.py:69)
    calls,      \* the calls of check_and_update_quota, each with its locals
    status,     \* what get_quota_status returned last
    jobs,       \* the /process requests, each with its locals (main.py:262)
    fs          \* the files under TMP_DIR (main.py:51): path -> job that wrote it

ocrVars == <<ocr, words, sizes, n_classes, k_used, breaks, body, raw_text, exc, pc>>

quotaVars == <<ledger, ledger0, now, calls, status>>

processVars == <<jobs, fs>>

vars == <<ocrVars, quotaVars, processVars>>

(***************************************************************************)
(* Bounds of the checked inputs.                                           *)
(***************************************************************************)
MaxWords == 3       \* Word nodes in one OCR result
MaxSizes == 4       \* heights in a direct call of cluster_body_sizes
MaxClasses == 4     \* largest n_classes of a direct call
MaxPairs == 2       \* (word, size) pairs in a direct call of filter_body_words
MaxBreaks == 4      \* breaks in a direct call of filter_body_words
MaxCalls == 2       \* calls of check_and_update_quota
MaxDays == 2        \* days the clock runs through

SeqUpTo(S, n) == UNION {[1..m -> S] : m \in 0..n}

SetMin(S) == CHOOSE x \in S : \A y \in S : x <= y

SetMax(S) == CHOOSE x \in S : \A y \in S : y <= x

Range(s) == {s[i] : i \in DOMAIN s}

(***************************************************************************)
(* The OCR result: pages -> blocks -> paragraphs -> words -> symbols, each *)
(* word with a bounding polygon (filter.py:5-10).                          *)
(***************************************************************************)
Symbol(c) == [text |-> <<c>>]

Vertex(x, y) == [x |-> x, y |-> y]

Word(symbols, vertices) ==
    [symbols |-> symbols, bounding_box |-> [vertices |-> vertices]]

\* The words an OCR result is built from: two glyph sizes (one polygon
\* skewed), a word without Symbols in a flat polygon, and the polygons of
\* one vertex and of none.
WordPool ==
    { Word(<<Symbol("a"), Symbol("b")>>,
           <<Vertex(0, 3), Vertex(4, 2), Vertex(4, 6), Vertex(0, 7)>>),
      Word(<<Symbol("c")>>,
           <<Vertex(0, 9), Vertex(4, 9), Vertex(4, 0), Vertex(0, 0)>>),
      Word(<<>>,
           <<Vertex(0, 4), Vertex(4, 4), Vertex(4, 4), Vertex(0, 4)>>),
      Word(<<Symbol("e")>>, <<Vertex(0, 4)>>),
      Word(<<Symbol("f")>>, <<>>) }

\* The maximal runs of lo..hi that no cut of level >= L interrupts; cuts[i]
\* is the level of the boundary between word i and word i+1.
RECURSIVE Segments(_, _, _, _)
Segments(lo, hi, cuts, L) ==
    IF lo > hi THEN <<>>
    ELSE LET ends == {i \in lo..(hi - 1) : cuts[i] >= L}
         IN  IF ends = {} THEN << <<lo, hi>> >>
             ELSE << <<lo, SetMin(ends)>> >>
                  \o Segments(SetMin(ends) + 1, hi, cuts, L)

ParagraphOf(ws, r) == [words |-> SubSeq(ws, r[1], r[2])]

BlockOf(ws, cuts, r) ==
    LET segs == Segments(r[1], r[2], cuts, 1)
    IN  [paragraphs |-> [j \in DOMAIN segs |-> ParagraphOf(ws, segs[j])]]

PageOf(ws, cuts, r) ==
    LET segs == Segments(r[1], r[2], cuts, 2)
    IN  [blocks |-> [j \in DOMAIN segs |-> BlockOf(ws, cuts, segs[j])]]

\* The OCR result whose words are ws in reading order, word i+1 starting a
\* new paragraph (cut 1), block (2) or page (3), or none (0).
Annotation(ws, cuts) ==
    LET segs == Segments(1, Len(ws), cuts, 3)
    IN  [pages |-> [j \in DOMAIN segs |-> PageOf(ws, cuts, segs[j])]]

\* OCR results without any word: no page, or empty containers.
EmptyAnnotations ==
    { [pages |-> <<>>],
      [pages |-> << [blocks |-> <<>>] >>],
      [pages |-> << [blocks |-> << [paragraphs |-> <<>>] >>] >>],
      [pages |-> << [blocks |-> << [paragraphs |-> << [words |-> <<>>] >>] >>],
                    [blocks |-> <<>>] >>] }

OcrResults ==
    EmptyAnnotations \cup
    { Annotation(ws, cuts) :
        <<ws, cuts>> \in UNION { [1..m -> WordPool] \X [1..(m - 1) -> 0..3]
                                 : m \in 1..MaxWords } }

(***************************************************************************)
(* Python built-ins used by filter.py.                                     *)
(***************************************************************************)
\* sep.join(parts), parts a sequence of str.
RECURSIVE StrJoin(_, _)
StrJoin(sep, parts) ==
    IF parts = <<>> THEN <<>>
    ELSE IF Len(parts) = 1 THEN parts[1]
    ELSE parts[1] \o sep \o StrJoin(sep, Tail(parts))

\* list[i] for i >= 0: defined when InRange, IndexError otherwise.
InRange(list, i) == i < Len(list)

Index(list, i) == list[i + 1]

\* list(zip(a, b)): as long as the shorter argument.
Zip(a, b) ==
    [i \in 1..(IF Len(a) <= Len(b) THEN Len(a) ELSE Len(b)) |-> <<a[i], b[i]>>]

(***************************************************************************)
(* parse_ocr_data (filter.py:3-13).  The accumulator holds the two lists   *)
(* and the exception that ended the traversal, if any.                     *)
(***************************************************************************)
\* ParseWord with a word already seen skipped (a deduplicating parser).
ParseWordDedup(acc, word) ==
    LET text == StrJoin(<<>>, [i \in DOMAIN word.symbols |-> word.symbols[i].text])
        ys   == [i \in DOMAIN word.bounding_box.vertices |->
                    word.bounding_box.vertices[i].y]
    IN  IF ys = <<>>
        THEN [acc EXCEPT !.exc = "ValueError"]
        ELSE IF text \in Range(acc.words) THEN acc
        ELSE [acc EXCEPT !.words = Append(@, text),
                         !.sizes = Append(@, SetMax(Range(ys)) - SetMin(Range(ys)))]

\* ParseWord with the height measured from the first vertex (taken to be the
\* top edge) instead of from the lowest y.
ParseWordFirstVertex(acc, word) ==
    LET text == StrJoin(<<>>, [i \in DOMAIN word.symbols |-> word.symbols[i].text])
        ys   == [i \in DOMAIN word.bounding_box.vertices |->
                    word.bounding_box.vertices[i].y]
    IN  IF ys = <<>>
        THEN [acc EXCEPT !.exc = "ValueError"]
        ELSE [acc EXCEPT !.words = Append(@, text),
                         !.sizes = Append(@, SetMax(Range(ys)) - ys[1])]

\* filter.py:9-12, the body of the innermost loop.  max() and min() of an
\* empty list raise ValueError.
ParseWord(acc, word) ==
    LET text == StrJoin(<<>>, [i \in DOMAIN word.symbols |-> word.symbols[i].text])
        ys   == [i \in DOMAIN word.bounding_box.vertices |->
                    word.bounding_box.vertices[i].y]
    IN  IF ys = <<>>
        THEN [acc EXCEPT !.exc = "ValueError"]
        ELSE [acc EXCEPT !.words = Append(@, text),
                         !.sizes = Append(@, SetMax(Range(ys)) - SetMin(Range(ys)))]

RECURSIVE ForWords(_, _, _)
ForWords(acc, para, i) ==
    IF i > Len(para.words) \/ acc.exc # "none" THEN acc
    ELSE ForWords(ParseWord(acc, para.words[i]), para, i + 1)

RECURSIVE ForParagraphs(_, _, _)
ForParagraphs(acc, block, i) ==
    IF i > Len(block.paragraphs) \/ acc.exc # "none" THEN acc
    ELSE ForParagraphs(ForWords(acc, block.paragraphs[i], 1), block, i + 1)

RECURSIVE ForBlocks(_, _, _)
ForBlocks(acc, page, i) ==
    IF i > Len(page.blocks) \/ acc.exc # "none" THEN acc
    ELSE ForBlocks(ForParagraphs(acc, page.blocks[i], 1), page, i + 1)

RECURSIVE ForPages(_, _, _)
ForPages(acc, ocr_annotation, i) ==
    IF i > Len(ocr_annotation.pages) \/ acc.exc # "none" THEN acc
    ELSE ForPages(ForBlocks(acc, ocr_annotation.pages[i], 1), ocr_annotation, i + 1)

parse_ocr_data(ocr_annotation) ==
    ForPages([words |-> <<>>, sizes |-> <<>>, exc |-> "none"], ocr_annotation, 1)

(***************************************************************************)
(* jenkspy.jenks_breaks(values, n_classes), the library called at          *)
(* filter.py:27: Fisher-Jenks natural breaks.  The sorted values are cut   *)
(* into n_classes contiguous non-empty classes of least total squared      *)
(* deviation from the class means; the result is the minimum followed by   *)
(* the largest value of each class.  Which of several optimal cuts the     *)
(* library takes is left open: every optimum is a possible result.         *)
(***************************************************************************)
GCD(a, b) == SetMax({d \in 1..a : a % d = 0 /\ b % d = 0})

RECURSIVE LCMUpTo(_)
LCMUpTo(n) == IF n <= 1 THEN 1 ELSE (LCMUpTo(n - 1) * n) \div GCD(LCMUpTo(n - 1), n)

RECURSIVE SumOf(_, _, _)
SumOf(s, a, b) == IF a > b THEN 0 ELSE s[a] + SumOf(s, a + 1, b)

RECURSIVE SumSqOf(_, _, _)
SumSqOf(s, a, b) == IF a > b THEN 0 ELSE s[a] * s[a] + SumSqOf(s, a + 1, b)

\* scale * (sum of squared deviations of s[a..b] from their mean); scale is a
\* multiple of every class size, so the value is an integer.
ClassDeviation(s, a, b, scale) ==
    scale * SumSqOf(s, a, b) - (scale \div (b - a + 1)) * SumOf(s, a, b) * SumOf(s, a, b)

\* The classes of a set of cut positions: class boundaries as <<first, last>>.
ClassesOf(n, cutset) == Segments(1, n, [i \in 1..(n - 1) |-> IF i \in cutset THEN 1 ELSE 0], 1)

TotalDeviation(s, cutset, scale) ==
    LET cls == ClassesOf(Len(s), cutset)
        RECURSIVE Tot(_)
        Tot(j) == IF j > Len(cls) THEN 0
                  ELSE ClassDeviation(s, cls[j][1], cls[j][2], scale) + Tot(j + 1)
    IN  Tot(1)

jenks_breaks(values, k) ==
    IF k < 1 \/ k > Len(values)
    THEN {[exc |-> "ValueError", breaks |-> <<>>]}
    ELSE LET s       == SortSeq(values, LAMBDA x, y : x < y)
             n       == Len(s)
             scale   == LCMUpTo(n)
             cutsets == {c \in SUBSET (1..(n - 1)) : Cardinality(c) = k - 1}
             best    == {c \in cutsets :
                            \A d \in cutsets :
                                TotalDeviation(s, c, scale) <= TotalDeviation(s, d, scale)}
         IN  { [exc |-> "none",
                breaks |-> <<s[1]>> \o
                    [j \in 1..k |-> s[ClassesOf(n, c)[j][2]]]] : c \in best }

(***************************************************************************)
(* cluster_body_sizes (filter.py:15-28): the set of possible outcomes,     *)
(* each with the n_classes it handed to jenks_breaks (0: not called).      *)
(***************************************************************************)
\* cluster_body_sizes without the reduction of n_classes (filter.py:23-25).
cluster_body_sizes_fixed_count(sizes_arg, n_classes_arg) ==
    LET unique_sizes == Cardinality(Range(sizes_arg))
    IN  IF unique_sizes = 0
        THEN {[exc |-> "none", breaks |-> <<>>, n_classes |-> 0]}
        ELSE {[exc |-> r.exc, breaks |-> r.breaks, n_classes |-> n_classes_arg] :
                r \in jenks_breaks(sizes_arg, n_classes_arg)}

\* cluster_body_sizes without the early return for no sizes (filter.py:20-22).
cluster_body_sizes_no_empty_check(sizes_arg, n_classes_arg) ==
    LET unique_sizes == Cardinality(Range(sizes_arg))
        n == IF unique_sizes < n_classes_arg
             THEN (IF unique_sizes > 1 THEN unique_sizes ELSE 1)
             ELSE n_classes_arg
    IN  {[exc |-> r.exc, breaks |-> r.breaks, n_classes |-> n] :
            r \in jenks_breaks(sizes_arg, n)}

\* cluster_body_sizes clustering the sizes after the first one only.
cluster_body_sizes_skip_first(sizes_arg, n_classes_arg) ==
    LET unique_sizes == Cardinality(Range(sizes_arg))
        n == IF unique_sizes < n_classes_arg
             THEN (IF unique_sizes > 1 THEN unique_sizes ELSE 1)
             ELSE n_classes_arg
    IN  IF unique_sizes = 0
        THEN {[exc |-> "none", breaks |-> <<>>, n_classes |-> 0]}
        ELSE {[exc |-> r.exc, breaks |-> r.breaks, n_classes |-> n] :
                r \in jenks_breaks(Tail(sizes_arg), n)}

cluster_body_sizes(sizes_arg, n_classes_arg) ==
    LET unique_sizes == Cardinality(Range(sizes_arg))
        n == IF unique_sizes < n_classes_arg
             THEN (IF unique_sizes > 1 THEN unique_sizes ELSE 1)
             ELSE n_classes_arg
    IN  IF unique_sizes = 0
        THEN {[exc |-> "none", breaks |-> <<>>, n_classes |-> 0]}
        ELSE {[exc |-> r.exc, breaks |-> r.breaks, n_classes |-> n] :
                r \in jenks_breaks(sizes_arg, n)}

(***************************************************************************)
(* filter_body_words (filter.py:30-31).  The chained comparison            *)
(* breaks[1] < s <= breaks[2] reads breaks[1], and reads breaks[2] only    *)
(* when breaks[1] < s holds; a read past the end raises IndexError.        *)
(***************************************************************************)
\* FilterLoop with a closed lower bound: breaks[1] <= s <= breaks[2].
RECURSIVE FilterLoopClosedLower(_, _, _, _)
FilterLoopClosedLower(acc, words_and_sizes, breaks_arg, i) ==
    IF i > Len(words_and_sizes) THEN [exc |-> "none", value |-> acc]
    ELSE LET w == words_and_sizes[i][1]
             s == words_and_sizes[i][2]
         IN  IF ~InRange(breaks_arg, 1) THEN [exc |-> "IndexError", value |-> <<>>]
             ELSE IF ~(Index(breaks_arg, 1) <= s)
                  THEN FilterLoopClosedLower(acc, words_and_sizes, breaks_arg, i + 1)
             ELSE IF ~InRange(breaks_arg, 2) THEN [exc |-> "IndexError", value |-> <<>>]
             ELSE IF s <= Index(breaks_arg, 2)
                  THEN FilterLoopClosedLower(Append(acc, w), words_and_sizes, breaks_arg, i + 1)
             ELSE FilterLoopClosedLower(acc, words_and_sizes, breaks_arg, i + 1)

\* FilterLoop reading both breaks before comparing:
\* lo, hi = breaks[1], breaks[2]; lo < s <= hi.
RECURSIVE FilterLoopEager(_, _, _, _)
FilterLoopEager(acc, words_and_sizes, breaks_arg, i) ==
    IF i > Len(words_and_sizes) THEN [exc |-> "none", value |-> acc]
    ELSE LET w == words_and_sizes[i][1]
             s == words_and_sizes[i][2]
         IN  IF ~InRange(breaks_arg, 1) \/ ~InRange(breaks_arg, 2)
             THEN [exc |-> "IndexError", value |-> <<>>]
             ELSE IF Index(breaks_arg, 1) < s /\ s <= Index(breaks_arg, 2)
                  THEN FilterLoopEager(Append(acc, w), words_and_sizes, breaks_arg, i + 1)
             ELSE FilterLoopEager(acc, words_and_sizes, breaks_arg, i + 1)

\* FilterLoop selecting the first band: breaks[0] < s <= breaks[1].
RECURSIVE FilterLoopFirstBand(_, _, _, _)
FilterLoopFirstBand(acc, words_and_sizes, breaks_arg, i) ==
    IF i > Len(words_and_sizes) THEN [exc |-> "none", value |-> acc]
    ELSE LET w == words_and_sizes[i][1]
             s == words_and_sizes[i][2]
         IN  IF ~InRange(breaks_arg, 0) THEN [exc |-> "IndexError", value |-> <<>>]
             ELSE IF ~(Index(breaks_arg, 0) < s)
                  THEN FilterLoopFirstBand(acc, words_and_sizes, breaks_arg, i + 1)
             ELSE IF ~InRange(breaks_arg, 1) THEN [exc |-> "IndexError", value |-> <<>>]
             ELSE IF s <= Index(breaks_arg, 1)
                  THEN FilterLoopFirstBand(Append(acc, w), words_and_sizes, breaks_arg, i + 1)
             ELSE FilterLoopFirstBand(acc, words_and_sizes, breaks_arg, i + 1)

\* filter_body_words collecting the kept words last first.
RECURSIVE FilterLoopPrepend(_, _, _, _)
FilterLoopPrepend(acc, words_and_sizes, breaks_arg, i) ==
    IF i > Len(words_and_sizes) THEN [exc |-> "none", value |-> acc]
    ELSE LET w == words_and_sizes[i][1]
             s == words_and_sizes[i][2]
         IN  IF ~InRange(breaks_arg, 1) THEN [exc |-> "IndexError", value |-> <<>>]
             ELSE IF ~(Index(breaks_arg, 1) < s)
                  THEN FilterLoopPrepend(acc, words_and_sizes, breaks_arg, i + 1)
             ELSE IF ~InRange(breaks_arg, 2) THEN [exc |-> "IndexError", value |-> <<>>]
             ELSE IF s <= Index(breaks_arg, 2)
                  THEN FilterLoopPrepend(<<w>> \o acc, words_and_sizes, breaks_arg, i + 1)
             ELSE FilterLoopPrepend(acc, words_and_sizes, breaks_arg, i + 1)

RECURSIVE FilterLoop(_, _, _, _)
FilterLoop(acc, words_and_sizes, breaks_arg, i) ==
    IF i > Len(words_and_sizes) THEN [exc |-> "none", value |-> acc]
    ELSE LET w == words_and_sizes[i][1]
             s == words_and_sizes[i][2]
         IN  IF ~InRange(breaks_arg, 1) THEN [exc |-> "IndexError", value |-> <<>>]
             ELSE IF ~(Index(breaks_arg, 1) < s)
                  THEN FilterLoop(acc, words_and_sizes, breaks_arg, i + 1)
             ELSE IF ~InRange(breaks_arg, 2) THEN [exc |-> "IndexError", value |-> <<>>]
             ELSE IF s <= Index(breaks_arg, 2)
                  THEN FilterLoop(Append(acc, w), words_and_sizes, breaks_arg, i + 1)
             ELSE FilterLoop(acc, words_and_sizes, breaks_arg, i + 1)

filter_body_words(words_and_sizes, breaks_arg) ==
    FilterLoop(<<>>, words_and_sizes, breaks_arg, 1)

(***************************************************************************)
(* The quota ledger (quota.py).  A date is <<month, day>>, a month is      *)
(* <<month>>, None is <<>>; days are numbered on, so a date names one day. *)
(***************************************************************************)
DAILY_LIMIT == 50000

MONTHLY_LIMIT == 1000000

None == <<>>

\* quota.py:33-36, what get_quota_data returns when the blob cannot be read.
DefaultQuotaData ==
    [daily |-> [date |-> None, characters |-> 0],
     monthly |-> [month |-> None, characters |-> 0]]

NoLedger == [exists |-> FALSE, data |-> DefaultQuotaData]

\* A ledger left by earlier use: written on an earlier day of month 1.
EarlierLedger ==
    [exists |-> TRUE,
     data |-> [daily |-> [date |-> <<1, 0>>, characters |-> 30000],
               monthly |-> [month |-> <<1>>, characters |-> 970000]]]

\* now.strftime("%Y-%m-%d") and now.strftime("%Y-%m") (quota.py:70-71).
Today(t) == <<t.month, t.day>>

CurrentMonth(t) == <<t.month>>

\* get_quota_data (quota.py:13-36): the blob's content, the default when
\* there is no blob.
get_quota_data(blob) == IF blob.exists THEN blob.data ELSE DefaultQuotaData

\* quota.py:74-79: the counters of another day or month start again at 0.
ResetQuota(data, t) ==
    LET d1 == IF data.daily.date # Today(t)
              THEN [data EXCEPT !.daily = [date |-> Today(t), characters |-> 0]]
              ELSE data
    IN  IF d1.monthly.month # CurrentMonth(t)
        THEN [d1 EXCEPT !.monthly = [month |-> CurrentMonth(t), characters |-> 0]]
        ELSE d1

NoQuotaResult ==
    [allowed |-> FALSE, remaining_daily |-> 0, remaining_monthly |-> 0,
     save |-> FALSE, data |-> DefaultQuotaData, today |-> None]

\* check_and_update_quota with the limits themselves refused (>= for >).
check_and_update_quota_strict(data_arg, t, characters_used) ==
    LET data == ResetQuota(data_arg, t)
        daily_used == data.daily.characters
        monthly_used == data.monthly.characters
        remaining_daily == DAILY_LIMIT - daily_used
        remaining_monthly == MONTHLY_LIMIT - monthly_used
    IN  IF daily_used + characters_used >= DAILY_LIMIT
           \/ monthly_used + characters_used >= MONTHLY_LIMIT
        THEN [allowed |-> FALSE, remaining_daily |-> remaining_daily,
              remaining_monthly |-> remaining_monthly,
              save |-> FALSE, data |-> data, today |-> Today(t)]
        ELSE [allowed |-> TRUE,
              remaining_daily |-> remaining_daily - characters_used,
              remaining_monthly |-> remaining_monthly - characters_used,
              save |-> TRUE,
              data |-> [data EXCEPT !.daily.characters = @ + characters_used,
                                    !.monthly.characters = @ + characters_used],
              today |-> Today(t)]

\* check_and_update_quota saving the reset counters also when it refuses.
check_and_update_quota_save_on_deny(data_arg, t, characters_used) ==
    LET data == ResetQuota(data_arg, t)
        daily_used == data.daily.characters
        monthly_used == data.monthly.characters
        remaining_daily == DAILY_LIMIT - daily_used
        remaining_monthly == MONTHLY_LIMIT - monthly_used
    IN  IF daily_used + characters_used > DAILY_LIMIT
           \/ monthly_used + characters_used > MONTHLY_LIMIT
        THEN [allowed |-> FALSE, remaining_daily |-> remaining_daily,
              remaining_monthly |-> remaining_monthly,
              save |-> TRUE, data |-> data, today |-> Today(t)]
        ELSE [allowed |-> TRUE,
              remaining_daily |-> remaining_daily - characters_used,
              remaining_monthly |-> remaining_monthly - characters_used,
              save |-> TRUE,
              data |-> [data EXCEPT !.daily.characters = @ + characters_used,
                                    !.monthly.characters = @ + characters_used],
              today |-> Today(t)]

\* check_and_update_quota (quota.py:69-115) on the data it downloaded and
\* the clock it read: the tuple it returns, whether it saves, and the data
\* it saves.
check_and_update_quota(data_arg, t, characters_used) ==
    LET data == ResetQuota(data_arg, t)
        daily_used == data.daily.characters
        monthly_used == data.monthly.characters
        remaining_daily == DAILY_LIMIT - daily_used
        remaining_monthly == MONTHLY_LIMIT - monthly_used
    IN  IF daily_used + characters_used > DAILY_LIMIT
           \/ monthly_used + characters_used > MONTHLY_LIMIT
        THEN [allowed |-> FALSE, remaining_daily |-> remaining_daily,
              remaining_monthly |-> remaining_monthly,
              save |-> FALSE, data |-> data, today |-> Today(t)]
        ELSE [allowed |-> TRUE,
              remaining_daily |-> remaining_daily - characters_used,
              remaining_monthly |-> remaining_monthly - characters_used,
              save |-> TRUE,
              data |-> [data EXCEPT !.daily.characters = @ + characters_used,
                                    !.monthly.characters = @ + characters_used],
              today |-> Today(t)]

NoStatus ==
    [daily |-> [used |-> 0, limit |-> 0, remaining |-> 0],
     monthly |-> [used |-> 0, limit |-> 0, remaining |-> 0]]

\* get_quota_status reporting the stored counters whatever their date.
get_quota_status_no_reset(data, t) ==
    [daily |-> [used |-> data.daily.characters, limit |-> DAILY_LIMIT,
                remaining |-> DAILY_LIMIT - data.daily.characters],
     monthly |-> [used |-> data.monthly.characters, limit |-> MONTHLY_LIMIT,
                  remaining |-> MONTHLY_LIMIT - data.monthly.characters]]

\* get_quota_status (quota.py:124-142) on the data it downloaded.
get_quota_status(data, t) ==
    LET daily_used == IF data.daily.date # Today(t) THEN 0 ELSE data.daily.characters
        monthly_used == IF data.monthly.month # CurrentMonth(t) THEN 0
                        ELSE data.monthly.characters
    IN  [daily |-> [used |-> daily_used, limit |-> DAILY_LIMIT,
                    remaining |-> DAILY_LIMIT - daily_used],
         monthly |-> [used |-> monthly_used, limit |-> MONTHLY_LIMIT,
                      remaining |-> MONTHLY_LIMIT - monthly_used]]

CallIds == 1..MaxCalls

\* A call of check_and_update_quota: pc is "idle" (not made), "downloaded"
\* (after quota.py:68), "checked" (allowed, before the save at quota.py:108)
\* or "returned".
IdleCall ==
    [pc |-> "idle", characters_used |-> 0, data |-> DefaultQuotaData,
     result |-> NoQuotaResult]

\* The call after quota.py:68, with the data it read from the blob.
Downloaded(n, blob) ==
    [pc |-> "downloaded", characters_used |-> n, data |-> get_quota_data(blob),
     result |-> NoQuotaResult]

\* The call after quota.py:69-103, run at time t.
Checked(call, t) ==
    LET r == check_and_update_quota(call.data, t, call.characters_used)
    IN  [call EXCEPT !.pc = IF r.save THEN "checked" ELSE "returned",
                     !.result = r]

QuotaIdle ==
    /\ ledger = NoLedger
    /\ ledger0 = NoLedger
    /\ now = [month |-> 1, day |-> 1]
    /\ calls = [c \in CallIds |-> IdleCall]
    /\ status = NoStatus

(***************************************************************************)
(* The /process requests (main.py:262-508) and the files under TMP_DIR.    *)
(***************************************************************************)
JobIds == {1, 2, 3}

\* os.path.basename(remote_path) of the requests: the users uploaded files
\* of the same name, each under their own users/<user_id>/input/
\* (main.py:229).
FileNames == {"a.pdf"}

\* local_in (main.py:284), local_wav_path and local_mp3_path (main.py:291-292);
\* job_id is a fresh uuid4 (main.py:287), modelled by the job's number.
LocalIn(file) == <<"in", file>>

LocalWav(j) == <<"wav", ToString(j)>>

LocalMp3(j) == <<"mp3", ToString(j)>>

Paths ==
    {LocalIn(f) : f \in FileNames} \cup {LocalWav(j) : j \in JobIds}
        \cup {LocalMp3(j) : j \in JobIds}

\* No file at a path.
NoFile == 0

\* The labels of files_to_cleanup_locally (main.py:296), in its order.
CleanupOrder == <<"in", "wav", "mp3">>

ListOf(labels) == SelectSeq(CleanupOrder, LAMBDA l : l \in labels)

\* main.py:353
max_chars_per_doc == 100000

\* len(raw_text) of the extracted texts, and whether raw_text.strip() is
\* empty: no text, a text of 30,000 or of exactly 100,000 characters, and
\* over-long texts, one of them of white space only.
Texts ==
    {[text_length |-> 0, blank |-> TRUE],
     [text_length |-> 30000, blank |-> FALSE],
     [text_length |-> 100000, blank |-> FALSE],
     [text_length |-> 100001, blank |-> FALSE],
     [text_length |-> 100001, blank |-> TRUE]}

\* A request: pc is the statement of the handler it is at; outcome is how it
\* left the try block; quota_called and synthesized record that
\* check_and_update_quota (main.py:370) and long_synthesize_to_wav
\* (main.py:389) were called; todo is what the loop of the finally block has
\* still to visit.
IdleJob ==
    [pc |-> "idle", file |-> "a.pdf", files_to_cleanup_locally |-> {},
     todo |-> <<>>, text_length |-> 0, blank |-> FALSE, outcome |-> "none",
     quota |-> IdleCall, quota_called |-> FALSE, synthesized |-> FALSE]

ProcessIdle ==
    /\ jobs = [j \in JobIds |-> IdleJob]
    /\ fs = [p \in Paths |-> NoFile]

(***************************************************************************)
(* The OCR fallback of process_document_endpoint (main.py:339-341).        *)
(***************************************************************************)
Init ==
    /\ ocr \in OcrResults
    /\ words = <<>>
    /\ sizes = <<>>
    /\ n_classes = 3
    /\ k_used = 0
    /\ breaks = <<>>
    /\ body = <<>>
    /\ raw_text = <<>>
    /\ exc = "none"
    /\ pc = "start"
    /\ QuotaIdle
    /\ ProcessIdle

\* main.py:339  words, sizes = parse_ocr_data(ocr_data)
ParseOcrData ==
    /\ pc = "start"
    /\ LET r == parse_ocr_data(ocr)
       IN  IF r.exc = "none"
           THEN /\ words' = r.words
                /\ sizes' = r.sizes
                /\ pc' = "parsed"
                /\ UNCHANGED exc
           ELSE /\ exc' = r.exc
                /\ pc' = "parse_raised"
                /\ UNCHANGED <<words, sizes>>
    /\ UNCHANGED <<ocr, n_classes, k_used, breaks, body, raw_text>>
    /\ UNCHANGED <<quotaVars, processVars>>

\* main.py:340  breaks = cluster_body_sizes(sizes)
ClusterBodySizes ==
    /\ pc = "parsed"
    /\ \E r \in cluster_body_sizes(sizes, n_classes) :
        /\ k_used' = r.n_classes
        /\ IF r.exc = "none"
           THEN /\ breaks' = r.breaks
                /\ pc' = "clustered"
                /\ UNCHANGED exc
           ELSE /\ exc' = r.exc
                /\ pc' = "cluster_raised"
                /\ UNCHANGED breaks
    /\ UNCHANGED <<ocr, words, sizes, n_classes, body, raw_text>>
    /\ UNCHANGED <<quotaVars, processVars>>

\* main.py:341  filter_body_words(list(zip(words, sizes)), breaks)
FilterBodyWords ==
    /\ pc = "clustered"
    /\ LET r == filter_body_words(Zip(words, sizes), breaks)
       IN  IF r.exc = "none"
           THEN /\ body' = r.value
                /\ pc' = "filtered"
                /\ UNCHANGED exc
           ELSE /\ exc' = r.exc
                /\ pc' = "filter_raised"
                /\ UNCHANGED body
    /\ UNCHANGED <<ocr, words, sizes, n_classes, k_used, breaks, raw_text>>
    /\ UNCHANGED <<quotaVars, processVars>>

\* main.py:341  raw_text = " ".join(...)
JoinText ==
    /\ pc = "filtered"
    /\ raw_text' = StrJoin(<<" ">>, body)
    /\ pc' = "done"
    /\ UNCHANGED <<ocr, words, sizes, n_classes, k_used, breaks, body, exc>>
    /\ UNCHANGED <<quotaVars, processVars>>

Next == ParseOcrData \/ ClusterBodySizes \/ FilterBodyWords \/ JoinText

Spec == Init /\ [][Next]_vars

(***************************************************************************)
(* Direct calls: cluster_body_sizes on arbitrary heights and band counts   *)
(* followed by filter_body_words on its breaks, and filter_body_words on   *)
(* arbitrary breaks.                                                       *)
(***************************************************************************)
Heights == {0, 1, 5, 9}

\* The worked example of three separated glyph sizes.
ThreeGroups == <<10, 10, 11, 48, 50, 52, 90, 92>>

\* A distinct text for the i-th word of a direct call.
WordName(i) == <<"w", ToString(i)>>

InitCluster ==
    /\ ocr = [pages |-> <<>>]
    /\ sizes \in SeqUpTo(Heights, MaxSizes) \cup {ThreeGroups}
    /\ words = [i \in DOMAIN sizes |-> WordName(i)]
    /\ n_classes \in 1..MaxClasses
    /\ k_used = 0
    /\ breaks = <<>>
    /\ body = <<>>
    /\ raw_text = <<>>
    /\ exc = "none"
    /\ pc = "parsed"
    /\ QuotaIdle
    /\ ProcessIdle

NextCluster == ClusterBodySizes \/ FilterBodyWords

SpecCluster == InitCluster /\ [][NextCluster]_vars

FilterTexts == {<<"a">>, <<"b">>}

FilterSizes == {0, 1, 2}

InitFilter ==
    /\ ocr = [pages |-> <<>>]
    /\ \E ws \in SeqUpTo(FilterTexts \X FilterSizes, MaxPairs) :
        /\ words = [i \in DOMAIN ws |-> ws[i][1]]
        /\ sizes = [i \in DOMAIN ws |-> ws[i][2]]
    /\ n_classes = 3
    /\ k_used = 0
    /\ breaks \in SeqUpTo(FilterSizes, MaxBreaks)
    /\ body = <<>>
    /\ raw_text = <<>>
    /\ exc = "none"
    /\ pc = "clustered"
    /\ QuotaIdle
    /\ ProcessIdle

NextFilter == FilterBodyWords

SpecFilter == InitFilter /\ [][NextFilter]_vars

(***************************************************************************)
(* The OCR fallback from the parsed words on: words of equal and of        *)
(* different texts with arbitrary heights, clustered into 3 bands,         *)
(* filtered and joined (main.py:340-341).                                  *)
(***************************************************************************)
WordTexts == {<<"x">>, <<"y", "z">>}

InitText ==
    /\ ocr = [pages |-> <<>>]
    /\ sizes \in SeqUpTo(Heights, MaxSizes)
    /\ words \in [DOMAIN sizes -> WordTexts]
    /\ n_classes = 3
    /\ k_used = 0
    /\ breaks = <<>>
    /\ body = <<>>
    /\ raw_text = <<>>
    /\ exc = "none"
    /\ pc = "parsed"
    /\ QuotaIdle
    /\ ProcessIdle

NextText == ClusterBodySizes \/ FilterBodyWords \/ JoinText

SpecText == InitText /\ [][NextText]_vars

(***************************************************************************)
(* Concurrent calls of check_and_update_quota and get_quota_status on the  *)
(* shared ledger blob, and the clock.  A download (quota.py:20) and an     *)
(* upload (quota.py:47) are each one step on the blob; nothing orders the  *)
(* steps of different calls.                                               *)
(***************************************************************************)
\* characters_used of the calls.
Requests == {20000, 30000, 50001}

InitQuota ==
    /\ ocr = [pages |-> <<>>]
    /\ words = <<>>
    /\ sizes = <<>>
    /\ n_classes = 3
    /\ k_used = 0
    /\ breaks = <<>>
    /\ body = <<>>
    /\ raw_text = <<>>
    /\ exc = "none"
    /\ pc = "start"
    /\ ledger \in {NoLedger, EarlierLedger}
    /\ ledger0 = ledger
    /\ now = [month |-> 1, day |-> 1]
    /\ calls = [c \in CallIds |-> IdleCall]
    /\ status = NoStatus
    /\ ProcessIdle

\* quota.py:68  data = get_quota_data()
QuotaDownload(c, n) ==
    /\ calls[c].pc = "idle"
    /\ calls' = [calls EXCEPT ![c] = Downloaded(n, ledger)]
    /\ UNCHANGED <<ledger, ledger0, now, status>>

\* quota.py:69-103  the clock is read, the counters are reset and checked;
\* a refused call returns here.
QuotaCheck(c) ==
    /\ calls[c].pc = "downloaded"
    /\ calls' = [calls EXCEPT ![c] = Checked(calls[c], now)]
    /\ UNCHANGED <<ledger, ledger0, now, status>>

\* quota.py:105-115  save_quota_data(data) and the return of an allowed call.
QuotaSave(c) ==
    /\ calls[c].pc = "checked"
    /\ ledger' = [exists |-> TRUE, data |-> calls[c].result.data]
    /\ calls' = [calls EXCEPT ![c].pc = "returned"]
    /\ UNCHANGED <<ledger0, now, status>>

\* quota.py:118-142  get_quota_status()
GetQuotaStatus ==
    /\ status' = get_quota_status(get_quota_data(ledger), now)
    /\ UNCHANGED <<ledger, ledger0, now, calls>>

\* Midnight UTC: the next day, of the same month or of the next.
Tick ==
    /\ now.day < MaxDays
    /\ \E m \in {now.month, now.month + 1} :
        now' = [month |-> m, day |-> now.day + 1]
    /\ UNCHANGED <<ledger, ledger0, calls, status>>

NextQuota ==
    \/ \E c \in CallIds, n \in Requests :
        /\ \A d \in CallIds : d < c => calls[d].pc # "idle"
        /\ QuotaDownload(c, n)
        /\ UNCHANGED <<ocrVars, processVars>>
    \/ \E c \in CallIds : QuotaCheck(c) /\ UNCHANGED <<ocrVars, processVars>>
    \/ \E c \in CallIds : QuotaSave(c) /\ UNCHANGED <<ocrVars, processVars>>
    \/ GetQuotaStatus /\ UNCHANGED <<ocrVars, processVars>>
    \/ Tick /\ UNCHANGED <<ocrVars, processVars>>

SpecQuota == InitQuota /\ [][NextQuota]_vars

(***************************************************************************)
(* Concurrent /process requests (main.py:262-508).  Each request runs the  *)
(* statements of the handler in order; the requests share TMP_DIR and the  *)
(* quota ledger, and nothing orders the statements of different requests.  *)
(* A call to a service (storage, extraction, synthesis, ffmpeg) succeeds   *)
(* or raises.                                                              *)
(***************************************************************************)
PathOf(j, label) ==
    CASE label = "in" -> LocalIn(jobs[j].file)
      [] label = "wav" -> LocalWav(j)
      [] label = "mp3" -> LocalMp3(j)

\* os.path.exists
Exists(path) == fs[path] # NoFile

\* Leaving the try block (return or raise, main.py:465-502) for the finally
\* block (main.py:503-508), which uses the cleanup list only.
Leave(job, outcome) ==
    [IdleJob EXCEPT !.pc = "finally",
                    !.file = job.file,
                    !.files_to_cleanup_locally = job.files_to_cleanup_locally,
                    !.todo = ListOf(job.files_to_cleanup_locally),
                    !.outcome = outcome,
                    !.quota_called = job.quota_called,
                    !.synthesized = job.synthesized]

\* The handler has returned or raised: its locals are gone, the response
\* is sent.
Finished == [IdleJob EXCEPT !.pc = "done"]

\* The gates on the text without the check for a blank text.
TextGateNoBlankCheck(text_length, blank) ==
    IF text_length > max_chars_per_doc THEN "text_too_long"
    ELSE "pass"

\* main.py:357-367: the length gate, then the blank gate.
TextGate(text_length, blank) ==
    IF text_length > max_chars_per_doc THEN "text_too_long"
    ELSE IF blank THEN "no_text"
    ELSE "pass"

InitProcess ==
    /\ ocr = [pages |-> <<>>]
    /\ words = <<>>
    /\ sizes = <<>>
    /\ n_classes = 3
    /\ k_used = 0
    /\ breaks = <<>>
    /\ body = <<>>
    /\ raw_text = <<>>
    /\ exc = "none"
    /\ pc = "start"
    /\ QuotaIdle
    /\ ProcessIdle

\* main.py:267-300: the request is accepted, its paths and its cleanup list
\* are set.
StartJob(j, file) ==
    /\ jobs[j].pc = "idle"
    /\ \A k \in JobIds : k < j => jobs[k].pc # "idle"
    /\ jobs' = [jobs EXCEPT ![j] = [@ EXCEPT !.pc = "size",
                                            !.file = file,
                                            !.files_to_cleanup_locally =
                                                {"in", "wav", "mp3"}]]
    /\ UNCHANGED <<fs, quotaVars>>

\* main.py:306-312
GetBlobSize(j) ==
    /\ jobs[j].pc = "size"
    /\ \E too_large \in BOOLEAN :
        jobs' = [jobs EXCEPT ![j] = IF too_large THEN Leave(@, "file_too_large")
                                    ELSE [@ EXCEPT !.pc = "download"]]
    /\ UNCHANGED <<fs, quotaVars>>

\* main.py:316  download_blob(full_gcs_input_path, local_in): the file is
\* written over whatever is at local_in; a failed download may leave a file.
DownloadInput(j) ==
    /\ jobs[j].pc = "download"
    /\ \E ok \in BOOLEAN, written \in BOOLEAN :
        /\ ok => written
        /\ fs' = IF written THEN [fs EXCEPT ![PathOf(j, "in")] = j] ELSE fs
        /\ jobs' = [jobs EXCEPT ![j] = IF ok THEN [@ EXCEPT !.pc = "extract"]
                                       ELSE Leave(@, "error")]
    /\ UNCHANGED quotaVars

\* main.py:327-343: the text is extracted from the file at local_in.
ExtractText(j) ==
    /\ jobs[j].pc = "extract"
    /\ \/ /\ Exists(PathOf(j, "in"))
          /\ \E t \in Texts :
              jobs' = [jobs EXCEPT ![j] = [@ EXCEPT !.pc = "exists_in",
                                                   !.text_length = t.text_length,
                                                   !.blank = t.blank]]
       \/ jobs' = [jobs EXCEPT ![j] = Leave(@, "error")]
    /\ UNCHANGED <<fs, quotaVars>>

\* main.py:346  if os.path.exists(local_in):
ExistsInput(j) ==
    /\ jobs[j].pc = "exists_in"
    /\ jobs' = [jobs EXCEPT ![j].pc = IF Exists(PathOf(j, "in")) THEN "remove_in"
                                      ELSE "check_text"]
    /\ UNCHANGED <<fs, quotaVars>>

\* main.py:347-350  os.remove(local_in), FileNotFoundError when it is gone.
RemoveInput(j) ==
    /\ jobs[j].pc = "remove_in"
    /\ IF Exists(PathOf(j, "in"))
       THEN /\ fs' = [fs EXCEPT ![PathOf(j, "in")] = NoFile]
            /\ jobs' = [jobs EXCEPT ![j] =
                            [@ EXCEPT !.pc = "check_text",
                                      !.files_to_cleanup_locally = @ \ {"in"}]]
       ELSE /\ jobs' = [jobs EXCEPT ![j] = Leave(@, "error")]
            /\ UNCHANGED fs
    /\ UNCHANGED quotaVars

\* main.py:357-367
CheckText(j) ==
    /\ jobs[j].pc = "check_text"
    /\ LET gate == TextGate(jobs[j].text_length, jobs[j].blank)
       IN  jobs' = [jobs EXCEPT ![j] = IF gate = "pass" THEN [@ EXCEPT !.pc = "quota"]
                                       ELSE Leave(@, gate)]
    /\ UNCHANGED <<fs, quotaVars>>

\* main.py:370 and quota.py:68: check_and_update_quota(text_length) is
\* called and reads the ledger.
CallQuota(j) ==
    /\ jobs[j].pc = "quota"
    /\ jobs' = [jobs EXCEPT ![j] =
                    [@ EXCEPT !.pc = "in_quota",
                              !.quota_called = TRUE,
                              !.quota = Downloaded(jobs[j].text_length, ledger)]]
    /\ UNCHANGED <<fs, quotaVars>>

\* quota.py:69-103 within the request.
JobQuotaCheck(j) ==
    /\ jobs[j].pc = "in_quota"
    /\ jobs[j].quota.pc = "downloaded"
    /\ jobs' = [jobs EXCEPT ![j].quota = Checked(@, now)]
    /\ UNCHANGED <<fs, quotaVars>>

\* quota.py:105-115 within the request.
JobQuotaSave(j) ==
    /\ jobs[j].pc = "in_quota"
    /\ jobs[j].quota.pc = "checked"
    /\ ledger' = [exists |-> TRUE, data |-> jobs[j].quota.result.data]
    /\ jobs' = [jobs EXCEPT ![j].quota.pc = "returned"]
    /\ UNCHANGED <<fs, ledger0, now, calls, status>>

\* main.py:373-377
QuotaReturn(j) ==
    /\ jobs[j].pc = "in_quota"
    /\ jobs[j].quota.pc = "returned"
    /\ jobs' = [jobs EXCEPT ![j] = IF jobs[j].quota.result.allowed
                                   THEN [@ EXCEPT !.pc = "synthesize"]
                                   ELSE Leave(@, "quota_exceeded")]
    /\ UNCHANGED <<fs, quotaVars>>

\* main.py:388-418  long_synthesize_to_wav(...)
Synthesize(j) ==
    /\ jobs[j].pc = "synthesize"
    /\ \E ok \in BOOLEAN :
        jobs' = [jobs EXCEPT ![j] =
                    IF ok THEN [@ EXCEPT !.pc = "download_wav", !.synthesized = TRUE]
                    ELSE Leave([@ EXCEPT !.synthesized = TRUE], "error")]
    /\ UNCHANGED <<fs, quotaVars>>

\* main.py:424  download_blob(gcs_wav_path, local_wav_path)
DownloadWav(j) ==
    /\ jobs[j].pc = "download_wav"
    /\ \E ok \in BOOLEAN, written \in BOOLEAN :
        /\ ok => written
        /\ fs' = IF written THEN [fs EXCEPT ![PathOf(j, "wav")] = j] ELSE fs
        /\ jobs' = [jobs EXCEPT ![j] = IF ok THEN [@ EXCEPT !.pc = "transcode"]
                                       ELSE Leave(@, "error")]
    /\ UNCHANGED quotaVars

\* main.py:436-440  ffmpeg writes local_mp3_path; check=True raises when it
\* fails, with or without an output file.
Transcode(j) ==
    /\ jobs[j].pc = "transcode"
    /\ \E ok \in BOOLEAN, written \in BOOLEAN :
        /\ ok => written
        /\ fs' = IF written THEN [fs EXCEPT ![PathOf(j, "mp3")] = j] ELSE fs
        /\ jobs' = [jobs EXCEPT ![j] = IF ok THEN [@ EXCEPT !.pc = "remove_wav"]
                                       ELSE Leave(@, "error")]
    /\ UNCHANGED quotaVars

\* main.py:443-447
RemoveWav(j) ==
    /\ jobs[j].pc = "remove_wav"
    /\ IF Exists(PathOf(j, "wav"))
       THEN /\ fs' = [fs EXCEPT ![PathOf(j, "wav")] = NoFile]
            /\ jobs' = [jobs EXCEPT ![j] =
                            [@ EXCEPT !.pc = "upload",
                                      !.files_to_cleanup_locally = @ \ {"wav"}]]
       ELSE /\ jobs' = [jobs EXCEPT ![j].pc = "upload"]
            /\ UNCHANGED fs
    /\ UNCHANGED quotaVars

\* main.py:451  upload_blob(local_mp3_path, gcs_output_mp3_path)
UploadMp3(j) ==
    /\ jobs[j].pc = "upload"
    /\ \E ok \in BOOLEAN :
        jobs' = [jobs EXCEPT ![j] = IF ok THEN [@ EXCEPT !.pc = "remove_mp3"]
                                    ELSE Leave(@, "error")]
    /\ UNCHANGED <<fs, quotaVars>>

\* main.py:454-458
RemoveMp3(j) ==
    /\ jobs[j].pc = "remove_mp3"
    /\ IF Exists(PathOf(j, "mp3"))
       THEN /\ fs' = [fs EXCEPT ![PathOf(j, "mp3")] = NoFile]
            /\ jobs' = [jobs EXCEPT ![j] =
                            [@ EXCEPT !.pc = "presign",
                                      !.files_to_cleanup_locally = @ \ {"mp3"}]]
       ELSE /\ jobs' = [jobs EXCEPT ![j].pc = "presign"]
            /\ UNCHANGED fs
    /\ UNCHANGED quotaVars

\* main.py:463-465  presigned_url(...) and the return.
Presign(j) ==
    /\ jobs[j].pc = "presign"
    /\ \E ok \in BOOLEAN :
        jobs' = [jobs EXCEPT ![j] = Leave(@, IF ok THEN "ok" ELSE "error")]
    /\ UNCHANGED <<fs, quotaVars>>

\* main.py:504-505  the next f of the loop and os.path.exists(f); the loop
\* ends when no f is left.
FinallyExists(j) ==
    /\ jobs[j].pc = "finally"
    /\ jobs' = [jobs EXCEPT ![j] =
                    IF @.todo = <<>> THEN Finished
                    ELSE IF Exists(PathOf(j, Head(@.todo)))
                         THEN [@ EXCEPT !.pc = "finally_remove"]
                         ELSE [@ EXCEPT !.todo = Tail(@)]]
    /\ UNCHANGED <<fs, quotaVars>>

\* main.py:506  os.remove(f); FileNotFoundError when f is gone ends the
\* loop and the handler.
FinallyRemove(j) ==
    /\ jobs[j].pc = "finally_remove"
    /\ LET path == PathOf(j, Head(jobs[j].todo))
       IN  IF Exists(path)
           THEN /\ fs' = [fs EXCEPT ![path] = NoFile]
                /\ jobs' = [jobs EXCEPT ![j] = [@ EXCEPT !.pc = "finally",
                                                        !.todo = Tail(@)]]
           ELSE /\ jobs' = [jobs EXCEPT ![j] = Finished]
                /\ UNCHANGED fs
    /\ UNCHANGED quotaVars

\* The statements that touch only the request's own locals, its own WAV and
\* MP3 files or a service: they commute with every statement of another
\* request, so a request at one of them runs it before another request
\* moves.  The statements on local_in and on the ledger blob interleave
\* freely.
Private(j) ==
    \/ jobs[j].pc \in {"size", "check_text", "synthesize", "download_wav",
                       "transcode", "remove_wav", "upload", "remove_mp3",
                       "presign"}
    \/ jobs[j].pc = "in_quota" /\ jobs[j].quota.pc \in {"downloaded", "returned"}
    \/ /\ jobs[j].pc \in {"finally", "finally_remove"}
       /\ (jobs[j].todo = <<>> \/ Head(jobs[j].todo) # "in")

Turn(j) == \A k \in JobIds \ {j} : ~Private(k)

NextProcess ==
    \/ \E j \in JobIds, file \in FileNames :
        Turn(j) /\ StartJob(j, file) /\ UNCHANGED ocrVars
    \/ \E j \in JobIds : Turn(j) /\ GetBlobSize(j) /\ UNCHANGED ocrVars
    \/ \E j \in JobIds : Turn(j) /\ DownloadInput(j) /\ UNCHANGED ocrVars
    \/ \E j \in JobIds : Turn(j) /\ ExtractText(j) /\ UNCHANGED ocrVars
    \/ \E j \in JobIds : Turn(j) /\ ExistsInput(j) /\ UNCHANGED ocrVars
    \/ \E j \in JobIds : Turn(j) /\ RemoveInput(j) /\ UNCHANGED ocrVars
    \/ \E j \in JobIds : Turn(j) /\ CheckText(j) /\ UNCHANGED ocrVars
    \/ \E j \in JobIds : Turn(j) /\ CallQuota(j) /\ UNCHANGED ocrVars
    \/ \E j \in JobIds : Turn(j) /\ JobQuotaCheck(j) /\ UNCHANGED ocrVars
    \/ \E j \in JobIds : Turn(j) /\ JobQuotaSave(j) /\ UNCHANGED ocrVars
    \/ \E j \in JobIds : Turn(j) /\ QuotaReturn(j) /\ UNCHANGED ocrVars
    \/ \E j \in JobIds : Turn(j) /\ Synthesize(j) /\ UNCHANGED ocrVars
    \/ \E j \in JobIds : Turn(j) /\ DownloadWav(j) /\ UNCHANGED ocrVars
    \/ \E j \in JobIds : Turn(j) /\ Transcode(j) /\ UNCHANGED ocrVars
    \/ \E j \in JobIds : Turn(j) /\ RemoveWav(j) /\ UNCHANGED ocrVars
    \/ \E j \in JobIds : Turn(j) /\ UploadMp3(j) /\ UNCHANGED ocrVars
    \/ \E j \in JobIds : Turn(j) /\ RemoveMp3(j) /\ UNCHANGED ocrVars
    \/ \E j \in JobIds : Turn(j) /\ Presign(j) /\ UNCHANGED ocrVars
    \/ \E j \in JobIds : Turn(j) /\ FinallyExists(j) /\ UNCHANGED ocrVars
    \/ \E j \in JobIds : Turn(j) /\ FinallyRemove(j) /\ UNCHANGED ocrVars

SpecProcess == InitProcess /\ [][NextProcess]_vars

(***************************************************************************)
(* Properties.                                                             *)
(***************************************************************************)
\* The Word nodes of an OCR result, each named by its position
\* <<page, block, paragraph, word>>.
WordPaths(o) ==
    UNION { UNION { UNION { { <<p, b, q, w>> :
                w \in DOMAIN o.pages[p].blocks[b].paragraphs[q].words }
            : q \in DOMAIN o.pages[p].blocks[b].paragraphs }
        : b \in DOMAIN o.pages[p].blocks }
    : p \in DOMAIN o.pages }

WordAt(o, path) == o.pages[path[1]].blocks[path[2]].paragraphs[path[3]].words[path[4]]

\* Reading order: page first, then block, then paragraph, then word.
PathBefore(x, y) ==
    \E i \in 1..4 : x[i] < y[i] /\ \A j \in 1..(i - 1) : x[j] = y[j]

\* 1 + the number of Word nodes read before the one at path.
ReadingRank(o, path) == Cardinality({x \in WordPaths(o) : PathBefore(x, path)}) + 1

Parsed == pc \notin {"start", "parse_raised"}

Clustered == pc \in {"clustered", "filtered", "filter_raised", "done"}

AfterCluster == Clustered \/ pc = "cluster_raised"

AfterFilter == pc \in {"filtered", "filter_raised", "done"}

DistinctSizes == Cardinality(Range(sizes))

InBodyBand(pair) == breaks[2] < pair[2] /\ pair[2] <= breaks[3]

\* C1: with at least 3 breaks, filter_body_words returns, in order, exactly
\* the words whose height h satisfies breaks[1] < h <= breaks[2] (0-based
\* indices): all of them and no other word.
Thm_C1 ==
    (AfterFilter /\ Len(breaks) >= 3) =>
        /\ exc = "none"
        /\ LET kept == SelectSeq(Zip(words, sizes), InBodyBand)
           IN  body = [i \in DOMAIN kept |-> kept[i][1]]

Wit_C1 ==
    /\ pc = "filtered"
    /\ Len(breaks) >= 3
    /\ body # <<>>
    /\ Len(body) < Len(words)
    /\ \E i \in DOMAIN sizes : sizes[i] = breaks[2]

\* C2: with fewer than 3 breaks, filter_body_words returns an empty sequence
\* for every word list and never fails.
Claim_C2 ==
    (AfterFilter /\ Len(breaks) < 3) => (exc = "none" /\ body = <<>>)

\* C3: parse_ocr_data returns two sequences of equal length with one entry
\* per Word node, the entry of a node standing at the node's rank in reading
\* order (page, block, paragraph, word) in both sequences.
Thm_C3 ==
    Parsed =>
        /\ Len(words) = Cardinality(WordPaths(ocr))
        /\ Len(sizes) = Len(words)
        /\ \A path \in WordPaths(ocr) :
            LET alone == ParseWord([words |-> <<>>, sizes |-> <<>>, exc |-> "none"],
                                   WordAt(ocr, path))
                r     == ReadingRank(ocr, path)
            IN  words[r] = alone.words[1] /\ sizes[r] = alone.sizes[1]

Wit_C3 ==
    /\ pc = "parsed"
    /\ Len(ocr.pages) = 2
    /\ Len(ocr.pages[1].blocks) = 2
    /\ Len(words) = 3
    /\ words[1] = words[3]
    /\ words[1] # words[2]
    /\ sizes[1] # sizes[2]

Thm_C5 ==
    (Parsed /\ DistinctSizes = 1) =>
        /\ exc = "none"
        /\ pc \notin {"cluster_raised", "filter_raised"}
        /\ Clustered => (k_used = 1 /\ Len(breaks) = 2)
        /\ body = <<>>
        /\ raw_text = <<>>

Wit_C5 ==
    /\ pc = "done"
    /\ Len(sizes) = 3
    /\ DistinctSizes = 1
    /\ sizes[1] > 0
    /\ body = <<>>

\* C6: for an OCR result without any word no stage raises and every stage
\* yields an empty output: no words, no heights, no breaks, no body words.
Thm_C6 ==
    (WordPaths(ocr) = {}) =>
        /\ exc = "none"
        /\ pc \notin {"parse_raised", "cluster_raised", "filter_raised"}
        /\ words = <<>> /\ sizes = <<>>
        /\ breaks = <<>> /\ k_used = 0
        /\ body = <<>> /\ raw_text = <<>>

Wit_C6 ==
    /\ pc = "done"
    /\ WordPaths(ocr) = {}
    /\ ocr.pages # <<>>
    /\ breaks = <<>>
    /\ body = <<>>

\* C7: on a non-empty height sequence cluster_body_sizes returns k + 1
\* non-decreasing boundary values, k the effective band count, the first the
\* smallest height and the last the largest.
Thm_C7 ==
    (AfterCluster /\ sizes # <<>>) =>
        /\ pc # "cluster_raised"
        /\ Len(breaks) = k_used + 1
        /\ \A i \in 1..(Len(breaks) - 1) : breaks[i] <= breaks[i + 1]
        /\ breaks[1] \in Range(sizes)
        /\ breaks[Len(breaks)] \in Range(sizes)
        /\ \A i \in DOMAIN sizes : breaks[1] <= sizes[i] /\ sizes[i] <= breaks[Len(breaks)]

Wit_C7 ==
    /\ pc = "clustered"
    /\ k_used = 3
    /\ Len(sizes) = 4
    /\ sizes[1] > sizes[2]
    /\ breaks[1] < breaks[2]
    /\ breaks[2] < breaks[3]
    /\ breaks[3] < breaks[4]

\* C8: for the heights 10,10,11,48,50,52,90,92 and 3 requested bands the
\* breaks separate the three groups, and filter_body_words retains exactly
\* the words of the middle group (48, 50, 52), in order.
Thm_C8 ==
    (sizes = ThreeGroups /\ n_classes = 3 /\ AfterCluster) =>
        /\ Len(breaks) = 4
        /\ breaks[1] = 10
        /\ 11 <= breaks[2] /\ breaks[2] < 48
        /\ 52 <= breaks[3] /\ breaks[3] < 90
        /\ breaks[4] = 92
        /\ pc # "filter_raised"
        /\ pc = "filtered" => body = <<WordName(4), WordName(5), WordName(6)>>

Wit_C8 ==
    /\ pc = "filtered"
    /\ sizes = ThreeGroups
    /\ n_classes = 3
    /\ Len(body) = 3

\* C9: a structurally defective word record (no Symbols, or a bounding
\* polygon of fewer than 2 vertices, zero included) never aborts the parse:
\* it is emitted with empty text and/or height 0 and every word gets its
\* entry.
Claim_C9 ==
    (pc # "start") =>
        /\ pc # "parse_raised"
        /\ Len(words) = Cardinality(WordPaths(ocr))
        /\ \A path \in WordPaths(ocr) :
            /\ WordAt(ocr, path).symbols = <<>> => words[ReadingRank(ocr, path)] = <<>>
            /\ Len(WordAt(ocr, path).bounding_box.vertices) < 2 =>
                    sizes[ReadingRank(ocr, path)] = 0

\* C10: the text emitted for a Word is its Symbols' text in encounter order
\* without separator, and the height is the largest minus the smallest y of
\* its polygon's vertices, so at least 0, and 0 for a word whose vertices
\* share one y, which is emitted all the same.
Thm_C10 ==
    Parsed =>
        \A path \in WordPaths(ocr) :
            LET word == WordAt(ocr, path)
                vs   == word.bounding_box.vertices
                r    == ReadingRank(ocr, path)
            IN  /\ r \in DOMAIN words /\ r \in DOMAIN sizes
                /\ Len(words[r]) = Len(word.symbols)
                /\ \A i \in DOMAIN word.symbols : words[r][i] = word.symbols[i].text[1]
                /\ sizes[r] >= 0
                /\ \E hi, lo \in DOMAIN vs :
                    /\ sizes[r] = vs[hi].y - vs[lo].y
                    /\ \A i \in DOMAIN vs : vs[lo].y <= vs[i].y /\ vs[i].y <= vs[hi].y
                /\ (\A i, j \in DOMAIN vs : vs[i].y = vs[j].y) => sizes[r] = 0

Wit_C10 ==
    /\ pc = "parsed"
    /\ Len(words) = 3
    /\ words[1] = <<"a", "b">> /\ sizes[1] = 5
    /\ words[2] = <<>> /\ sizes[2] = 0
    /\ Len(WordAt(ocr, <<1, 1, 1, 2>>).bounding_box.vertices) = 4
    /\ words[3] = <<"c">> /\ sizes[3] = 9


(***************************************************************************)
(* The quota ledger.                                                       *)
(***************************************************************************)
\* The usage a call sees in the data it read, on the day and in the month
\* it runs.
DailyUsed(data, today) ==
    IF data.daily.date = today THEN data.daily.characters ELSE 0

MonthlyUsed(data, today) ==
    IF data.monthly.month = <<today[1]>> THEN data.monthly.characters ELSE 0

Returned(c) == calls[c].pc = "returned"

Allowed(c) == Returned(c) /\ calls[c].result.allowed

Denied(c) == Returned(c) /\ ~calls[c].result.allowed

\* C13: the recorded daily count never exceeds 50,000 and the recorded
\* monthly count never exceeds 1,000,000; a call for n characters is allowed
\* exactly when the daily usage it sees plus n is at most 50,000 and the
\* monthly usage it sees plus n is at most 1,000,000; and the ledger changes
\* only when an allowed call adds its n to both counters.
Thm_C13 ==
    [][/\ ledger'.data.daily.characters <= DAILY_LIMIT
       /\ ledger'.data.monthly.characters <= MONTHLY_LIMIT
       /\ \A c \in CallIds :
            calls'[c].pc \in {"checked", "returned"} =>
                LET call == calls'[c]
                    n == call.characters_used
                IN  /\ call.result.allowed <=>
                          /\ DailyUsed(call.data, call.result.today) + n <= DAILY_LIMIT
                          /\ MonthlyUsed(call.data, call.result.today) + n <= MONTHLY_LIMIT
                    /\ (call.pc = "checked") => call.result.allowed
       /\ ledger' # ledger =>
            \E c \in CallIds :
                LET call == calls[c]
                    n == call.characters_used
                IN  /\ call.pc = "checked"
                    /\ calls'[c].pc = "returned"
                    /\ call.result.allowed
                    /\ ledger'.data.daily.characters =
                           DailyUsed(call.data, call.result.today) + n
                    /\ ledger'.data.monthly.characters =
                           MonthlyUsed(call.data, call.result.today) + n]_vars

\* A call allowed that fills the month exactly (970,000 + 30,000), and the
\* next call refused.
Wit_C13 ==
    /\ ledger.data.monthly.characters = MONTHLY_LIMIT
    /\ \E c, d \in CallIds :
        /\ Allowed(c)
        /\ calls[c].characters_used = 30000
        /\ MonthlyUsed(calls[c].data, calls[c].result.today) = 970000
        /\ Denied(d)
        /\ calls[d].characters_used = 20000
        /\ calls[d].data = ledger.data

RECURSIVE SumAllowed(_)
SumAllowed(S) ==
    IF S = {} THEN 0
    ELSE LET c == CHOOSE x \in S : TRUE
         IN  (IF Allowed(c) THEN calls[c].characters_used ELSE 0)
                 + SumAllowed(S \ {c})

Quiescent == \A c \in CallIds : calls[c].pc \in {"idle", "returned"}

\* C15: whatever the interleaving of concurrent calls, once they have all
\* returned (on the day they started) the recorded daily and monthly counts
\* are the counts before them plus the characters of every allowed call, and
\* that total stays within 50,000 a day and 1,000,000 a month.
Claim_C15 ==
    (Quiescent /\ now.day = 1) =>
        LET today == Today(now)
            daily == DailyUsed(get_quota_data(ledger0), today) + SumAllowed(CallIds)
            monthly == MonthlyUsed(get_quota_data(ledger0), today) + SumAllowed(CallIds)
        IN  /\ DailyUsed(get_quota_data(ledger), today) = daily
            /\ MonthlyUsed(get_quota_data(ledger), today) = monthly
            /\ daily <= DAILY_LIMIT
            /\ monthly <= MONTHLY_LIMIT

\* C18: a call whose ledger carries another day (month) than the current one
\* checks against a daily (monthly) usage of 0; and as long as the recorded
\* day (month) stays the same the recorded daily (monthly) count never
\* decreases.
Claim_C18 ==
    [][/\ \A c \in CallIds :
            (calls[c].pc = "downloaded" /\ calls'[c].pc # "downloaded") =>
                LET call == calls'[c]
                    n == call.characters_used
                    charged == IF call.result.allowed THEN n ELSE 0
                IN  /\ call.data.daily.date # Today(now) =>
                        call.result.remaining_daily = DAILY_LIMIT - charged
                    /\ call.data.monthly.month # CurrentMonth(now) =>
                        call.result.remaining_monthly = MONTHLY_LIMIT - charged
       /\ ledger'.data.daily.date = ledger.data.daily.date =>
            ledger'.data.daily.characters >= ledger.data.daily.characters
       /\ ledger'.data.monthly.month = ledger.data.monthly.month =>
            ledger'.data.monthly.characters >= ledger.data.monthly.characters]_vars

\* C19: a refused call leaves the ledger as it is and returns the remaining
\* allowances it saw before the request; an allowed call returns them
\* reduced by exactly the characters requested.
Thm_C19 ==
    [][\A c \in CallIds :
        LET call == calls'[c]
            n == call.characters_used
            daily_used == DailyUsed(call.data, call.result.today)
            monthly_used == MonthlyUsed(call.data, call.result.today)
        IN  /\ (calls[c].pc = "downloaded" /\ call.pc = "returned") =>
                /\ ~call.result.allowed
                /\ ledger' = ledger
                /\ call.result.remaining_daily = DAILY_LIMIT - daily_used
                /\ call.result.remaining_monthly = MONTHLY_LIMIT - monthly_used
            /\ (calls[c].pc = "checked" /\ call.pc = "returned") =>
                /\ call.result.allowed
                /\ call.result.remaining_daily = DAILY_LIMIT - daily_used - n
                /\ call.result.remaining_monthly = MONTHLY_LIMIT - monthly_used - n]_vars

\* After 30,000 characters were allowed, a call for 30,000 more is refused
\* with 20,000 left of the day, and the ledger still records 30,000.
Wit_C19 ==
    \E c, d \in CallIds :
        /\ Allowed(c)
        /\ calls[c].result.remaining_daily = 20000
        /\ Denied(d)
        /\ calls[d].characters_used = 30000
        /\ calls[d].result.remaining_daily = 20000
        /\ ledger.data.daily.characters = 30000

\* C20: get_quota_status leaves the ledger as it is; for the day and for the
\* month it reports the limit, and used + remaining = limit; used is the
\* stored count when the stored date (month) is the current one and 0
\* otherwise.
Thm_C20 ==
    [][status' # status =>
        LET data == get_quota_data(ledger)
        IN  /\ ledger' = ledger
            /\ status'.daily.limit = DAILY_LIMIT
            /\ status'.monthly.limit = MONTHLY_LIMIT
            /\ status'.daily.used + status'.daily.remaining = status'.daily.limit
            /\ status'.monthly.used + status'.monthly.remaining = status'.monthly.limit
            /\ status'.daily.used = DailyUsed(data, Today(now))
            /\ status'.monthly.used = MonthlyUsed(data, Today(now))]_vars

\* The status of a ledger written on an earlier day of the month: nothing
\* used today, 970,000 used this month.
Wit_C20 ==
    /\ ledger.data.daily.characters > 0
    /\ ledger.data.daily.date # Today(now)
    /\ ledger.data.monthly.month = CurrentMonth(now)
    /\ status.daily.used = 0
    /\ status.daily.remaining = DAILY_LIMIT
    /\ status.monthly.used = 970000
    /\ status.monthly.remaining = 30000


(***************************************************************************)
(* The text handed to synthesis.                                           *)
(***************************************************************************)
\* The positions of the parsed words whose height lies in the body band.
KeptPositions ==
    {i \in DOMAIN words :
        /\ Len(breaks) >= 2
        /\ breaks[2] < sizes[i]
        /\ Len(breaks) >= 3
        /\ sizes[i] <= breaks[3]}

\* The i-th smallest element of a set of numbers.
Nth(S, i) == CHOOSE x \in S : Cardinality({y \in S : y < x}) = i - 1

\* Where the i-th word starts in the words joined by single spaces.
RECURSIVE OffsetOf(_, _)
OffsetOf(parts, i) ==
    IF i = 1 THEN 0 ELSE OffsetOf(parts, i - 1) + Len(parts[i - 1]) + 1

\* C11: on the OCR path the filtered words are a subsequence of the parsed
\* words: the words at the positions whose own height lies in the body
\* band, in their parsed order, a repeated word as often as it passes; and
\* the text handed on is these words in that order, separated by single
\* spaces.
Thm_C11 ==
    pc \in {"filtered", "done"} =>
        /\ Len(body) = Cardinality(KeptPositions)
        /\ \A i \in DOMAIN body : body[i] = words[Nth(KeptPositions, i)]
        /\ pc = "done" =>
            /\ Len(raw_text) = IF body = <<>> THEN 0
                               ELSE OffsetOf(body, Len(body)) + Len(body[Len(body)])
            /\ \A i \in DOMAIN body :
                /\ SubSeq(raw_text, OffsetOf(body, i) + 1,
                          OffsetOf(body, i) + Len(body[i])) = body[i]
                /\ i > 1 => raw_text[OffsetOf(body, i)] = " "

\* Four words "yz"(5) "x"(9) "x"(5) "yz"(0): the first and the third pass,
\* and the text is "yz x".
Wit_C11 ==
    /\ pc = "done"
    /\ words = << <<"y", "z">>, <<"x">>, <<"x">>, <<"y", "z">> >>
    /\ sizes = <<5, 9, 5, 0>>
    /\ body = << <<"y", "z">>, <<"x">> >>
    /\ raw_text = <<"y", "z", " ", "x">>


(***************************************************************************)
(* The /process requests.                                                  *)
(***************************************************************************)
\* C14: when the handler of a request has finished, on whatever path, none
\* of the local files the request wrote (its downloaded input, its WAV, its
\* MP3) is left in TMP_DIR.
Claim_C14 ==
    \A j \in JobIds :
        jobs[j].pc = "done" => \A p \in Paths : fs[p] # j

\* C16: the local files of concurrent requests never conflict, also when
\* the inputs have the same base name: a request extracts its text from the
\* file it downloaded itself, and it overwrites or removes no file that
\* another request wrote.
Claim_C16 ==
    [][\A j \in JobIds :
        jobs'[j] # jobs[j] =>
            /\ \A p \in Paths : fs'[p] # fs[p] => fs[p] \in {NoFile, j}
            /\ (jobs[j].pc = "extract" /\ jobs'[j].pc = "exists_in") =>
                   fs[LocalIn(jobs[j].file)] = j]_vars

\* The request has passed the three gates.
PastGates(job) ==
    job.pc \in {"synthesize", "download_wav", "transcode", "remove_wav",
                "upload", "remove_mp3", "presign"}

\* C17: synthesis is invoked only after the text passed, in this order, the
\* length gate (at most 100,000 characters), the blank gate and the quota
\* gate; a request rejected by the length or the blank gate has not called
\* check_and_update_quota and the ledger is written only for a text that
\* passed both; a request rejected by any gate has not started synthesis.
Thm_C17 ==
    [][/\ \A j \in JobIds :
            LET job == jobs'[j]
            IN  /\ PastGates(job) =>
                    /\ job.text_length <= max_chars_per_doc
                    /\ ~job.blank
                    /\ job.quota_called
                    /\ job.quota.pc = "returned"
                    /\ job.quota.result.allowed
                /\ job.synthesized => (PastGates(job) \/ job.outcome \in {"ok", "error"})
                /\ job.pc \in {"quota", "in_quota"} =>
                    (job.text_length <= max_chars_per_doc /\ ~job.blank)
                /\ job.quota_called => job.outcome \notin {"file_too_large",
                                                           "text_too_long", "no_text"}
                /\ job.outcome = "quota_exceeded" => ~job.synthesized
                /\ jobs[j].pc = "check_text" =>
                    /\ job.outcome = "text_too_long" <=>
                           jobs[j].text_length > max_chars_per_doc
                    /\ job.outcome = "no_text" <=>
                           (jobs[j].text_length <= max_chars_per_doc /\ jobs[j].blank)
                    /\ job.pc = "quota" <=>
                           (jobs[j].text_length <= max_chars_per_doc /\ ~jobs[j].blank)
       /\ ledger' # ledger =>
            \E j \in JobIds :
                /\ jobs[j].pc = "in_quota"
                /\ jobs[j].text_length <= max_chars_per_doc
                /\ ~jobs[j].blank
                /\ jobs[j].quota.result.allowed]_vars

\* A text of 30,000 characters was charged to the ledger and synthesized;
\* a second request is being refused by the quota gate.
Wit_C17 ==
    \E j, k \in JobIds :
        /\ jobs[j].pc = "download_wav"
        /\ jobs[j].synthesized
        /\ jobs[j].text_length = 30000
        /\ ledger.data.daily.characters = 30000
        /\ jobs[k].pc = "finally"
        /\ jobs[k].outcome = "quota_exceeded"
        /\ jobs[k].quota_called
        /\ ~jobs[k].synthesized

====
